---- MODULE Spec2Model ----
(***************************************************************************)
(* Model of two adapter layers of Getting Things GNOME!:                   *)
(*   GTG/viewmanager/dbuswrapper.py  (dsanitize, task_to_dict and the      *)
(*                                    D-Bus service object)                *)
(*   GTG/core/plugins/api.py         (PluginAPI)                           *)
(*                                                                         *)
(* Four specifications share the module's variables; each one drives one   *)
(* part of the program and pins the variables of the other parts:          *)
(*   SpecDict    task_to_dict / dsanitize on arbitrary getter values       *)
(*   SpecConfig  PluginAPI.load_ and save_configuration_object             *)
(*   SpecApi     PluginAPI construction, accessors, task editor widgets    *)
(*   SpecDBus    DBusTaskWrapper methods over a task store                 *)
(***************************************************************************)
EXTENDS Integers, Sequences, FiniteSets, TLC

VARIABLES
    \* ---- task_to_dict ----
    task,             \* what each getter of the task object returns
    toret,            \* the dictionary task_to_dict returned
    dpc,              \* "start" | "done"
    \* ---- load_configuration_object ----
    default_values,   \* default_values of the last load (None or a dict)
    stored,           \* what is on disk under the configuration path
    cfg,              \* the last load or save: returned dict, exception, ...
    \* ---- PluginAPI ----
    taskeditor,       \* constructor argument: None or an editor object
    task_id,          \* self.__task_id
    taskwidget_id,    \* self.taskwidget_id
    taskwidget_widg,  \* self.taskwidget_widg
    pluginbox,        \* builder object 'pluginbox': None or its children
    vbox4,            \* children of builder object 'vbox4'
    selected,         \* what browser.get_selected_tasks() returns
    issued,           \* history: issued[i] is the widget added under id i
    apiCall,          \* the last PluginAPI call: name, argument, outcome
    \* ---- DBusTaskWrapper ----
    store,            \* the requester's tasks: tid -> task fields
    created,          \* how many tasks req.new_task has made
    dbusCall          \* the last D-Bus call: name, arguments, outcome

dictVars   == <<task, toret, dpc>>
configVars == <<default_values, stored, cfg>>
apiVars    == <<taskeditor, task_id, taskwidget_id, taskwidget_widg,
                pluginbox, vbox4, selected, issued, apiCall>>
dbusVars   == <<store, created, dbusCall>>
vars       == <<dictVars, configVars, apiVars, dbusVars>>

Range(s) == {s[i] : i \in DOMAIN s}

(***************************************************************************)
(* Python values that reach task_to_dict.  A value is a record of its      *)
(* type and a payload that is always a sequence of strings: the empty      *)
(* sequence for None, a one-element sequence for a str or a Date, the      *)
(* elements for a list or a dbus.Array (always of signature "s" here).     *)
(***************************************************************************)
PyNone       == [t |-> "NoneType", v |-> <<>>]
PyStr(s)     == [t |-> "str", v |-> <<s>>]
PyList(seq)  == [t |-> "list", v |-> seq]
PyDate(s)    == [t |-> "Date", v |-> <<s>>]
DBusArray(seq) == [t |-> "dbus.Array", v |-> seq]

\* isinstance(v, list): dbus.Array is a subclass of list
IsInstanceList(x) == x.t \in {"list", "dbus.Array"}

\* truth value of a Python object
Truthy(x) ==
    CASE x.t = "NoneType" -> FALSE
      [] x.t = "str" -> x.v[1] # ""
      [] x.t \in {"list", "dbus.Array"} -> Len(x.v) > 0
      [] OTHER -> TRUE

\* repr() of a list of strings, for the lists of the model
ReprList(seq) ==
    CASE seq = <<>> -> "[]"
      [] seq = <<"a">> -> "['a']"
      [] seq = <<"b">> -> "['b']"
      [] seq = <<"a", "b">> -> "['a', 'b']"
      [] seq = <<"b", "a">> -> "['b', 'a']"
      [] OTHER -> "[...]"

\* str(x)
Str(x) ==
    CASE x.t = "NoneType" -> PyStr("None")
      [] x.t = "str" -> x
      [] x.t = "Date" -> PyStr(x.v[1])
      [] x.t \in {"list", "dbus.Array"} -> PyStr(ReprList(x.v))

\* x == y in Python: a dbus.Array equals the list of the same elements
PyEq(x, y) ==
    IF IsInstanceList(x) /\ IsInstanceList(y) THEN x.v = y.v ELSE x = y

(***************************************************************************)
(* dsanitize and task_to_dict                                              *)
(***************************************************************************)
DictKeys == {"id", "status", "title", "duedate", "startdate", "donedate",
             "tags", "text", "subtask"}
DateKeys == {"duedate", "startdate", "donedate"}

\* the loop body without its None branch
SanitizeNoNoneBranch(v) ==
    IF ~Truthy(v) /\ IsInstanceList(v) THEN DBusArray(<<>>) ELSE v

\* the loop body of dsanitize, for one value
SanitizeValue(v) ==
    IF ~Truthy(v) /\ IsInstanceList(v) THEN DBusArray(<<>>)
    ELSE IF v = PyNone THEN PyStr("")
    ELSE v

\* dsanitize(data): every key keeps its place, its value is sanitized
dsanitize(data) == [k \in DOMAIN data |-> SanitizeValue(data[k])]

\* the dict literal of task_to_dict: the date getters go through str()
TaskLiteral(t) ==
    [k \in DictKeys |-> IF k \in DateKeys THEN Str(t[k]) ELSE t[k]]

task_to_dict(t) == dsanitize(TaskLiteral(t))

\* values a getter may hand back
PlainValues == {PyNone, PyList(<<>>), PyList(<<"a">>), PyStr(""), PyStr("x")}
DateValues  == {PyNone, PyList(<<>>), PyDate("2013-01-01")}

NoDict == [k \in {} |-> PyNone]

DictIdle == /\ task = NoDict /\ toret = NoDict /\ dpc = "idle"

DictInit ==
    /\ \E p \in [DictKeys \ DateKeys -> PlainValues], d \in [DateKeys -> DateValues] :
          task = [k \in DictKeys |-> IF k \in DateKeys THEN d[k] ELSE p[k]]
    /\ toret = NoDict
    /\ dpc = "start"

TaskToDict ==
    /\ UNCHANGED <<configVars, apiVars, dbusVars>>
    /\ /\ dpc = "start"
       /\ toret' = task_to_dict(task)
       /\ dpc' = "done"
       /\ UNCHANGED task

(***************************************************************************)
(* PluginAPI.load_configuration_object                                     *)
(*                                                                         *)
(* A dict is a function from some of CfgKeys to CfgVals.  default_values   *)
(* is None or a dict.  The stored file is missing, not a pickle, a pickle   *)
(* whose loading raises SystemExit, or a pickle of: a dict, a list (of     *)
(* key/value pairs and of elements that are no pairs), or a number.  A     *)
(* file that exists has a mode: whether it may be read, and be written.    *)
(***************************************************************************)
CfgKeys == {"k1", "k2"}
CfgVals == {"old", "new"}
MaxStoredLen == 2

EmptyDict == [k \in {} |-> "old"]
Dicts == UNION {[S -> CfgVals] : S \in SUBSET CfgKeys}

DefaultsNone == [isNone |-> TRUE, d |-> EmptyDict]
DefaultsDict(d) == [isNone |-> FALSE, d |-> d]

\* an element of a stored list: a (key, value) pair, or something else
Pair(k, v) == [pair |-> TRUE, k |-> k, v |-> v]
NoPair == [pair |-> FALSE, k |-> "k1", v |-> "old"]
StoredElems == {Pair(k, v) : k \in CfgKeys, v \in {"new"}} \cup {NoPair}

\* a file of the given content, readable and writable
StoredFile(kind, d, elems) ==
    [kind |-> kind, d |-> d, elems |-> elems, readable |-> TRUE, writable |-> TRUE]
\* the same content under another mode
WithMode(f, r, w) == [f EXCEPT !.readable = r, !.writable = w]

StoredFiles ==
    {StoredFile(kind, EmptyDict, <<>>) :
        kind \in {"missing", "corrupt", "systemexit", "number"}}
    \cup {StoredFile("dict", d, <<>>) : d \in Dicts}
    \cup {StoredFile("list", EmptyDict, e) :
            e \in UNION {[1..n -> StoredElems] : n \in 0..MaxStoredLen}}

\* the subclasses of Exception that occur (SystemExit is none of them)
ExceptionClasses == {"FileNotFoundError", "PermissionError", "UnpicklingError",
                     "TypeError", "IndexError", "RuntimeError"}

\* "except Exception: pass" around the load and the merge
SwallowedOnLoad(exc) == exc \in ExceptionClasses

\* open(path, 'rb') followed by pickle.load(file): the exception raised
LoadError(f) ==
    CASE f.kind = "missing" -> "FileNotFoundError"
      [] ~f.readable -> "PermissionError"
      [] f.kind = "corrupt" -> "UnpicklingError"
      [] f.kind = "systemexit" -> "SystemExit"
      [] OTHER -> "none"

\* config[k] = v
SetItem(config, k, v) ==
    [x \in DOMAIN config \cup {k} |-> IF x = k THEN v ELSE config[x]]

\* dict.update with an iterable: the pairs are stored one by one, and the
\* first element that is no pair raises with the earlier ones kept
RECURSIVE UpdateFromSeq(_, _, _)
UpdateFromSeq(config, elems, i) ==
    IF i > Len(elems) THEN [config |-> config, exc |-> "none"]
    ELSE IF ~elems[i].pair THEN [config |-> config, exc |-> "TypeError"]
    ELSE UpdateFromSeq(SetItem(config, elems[i].k, elems[i].v), elems, i + 1)

\* config.update(item)
DictUpdate(config, item) ==
    CASE item.kind = "dict" ->
           [config |-> [x \in DOMAIN config \cup DOMAIN item.d |->
                          IF x \in DOMAIN item.d THEN item.d[x] ELSE config[x]],
            exc |-> "none"]
      [] item.kind = "list" -> UpdateFromSeq(config, item.elems, 1)
      [] OTHER -> [config |-> config, exc |-> "TypeError"]

\* the outcome of a call: the method, the returned dict, the exception raised
\* inside the method, whether it reached the caller, and the caller's
\* default_values afterwards
CfgOutcome(op, exc, raised, config, defaults_after) ==
    [op |-> op, exc |-> exc, raised |-> raised, config |-> config,
     defaults_after |-> defaults_after]

\* load_configuration_object: config is a copy, dict(default_values), so the
\* update never reaches the caller's object
load_configuration_object(defaults, f) ==
    LET config0 == IF ~defaults.isNone THEN defaults.d ELSE EmptyDict
        lerr == LoadError(f)
        upd == IF lerr # "none" THEN [config |-> config0, exc |-> lerr]
               ELSE DictUpdate(config0, f)
        propagated == upd.exc # "none" /\ ~SwallowedOnLoad(upd.exc)
    IN CfgOutcome("load", upd.exc, propagated, upd.config, defaults)

\* what save_configuration_object may be given: a dict, a list, a number
SavedItems == {f \in StoredFiles : f.kind \in {"dict", "list", "number"}}

\* save_configuration_object: open(path, 'wb') and pickle.dump(item, file);
\* a file that may not be written raises, and nothing catches it; a file
\* that is overwritten keeps its mode, a missing one is created
save_configuration_object(f, item) ==
    IF f.kind # "missing" /\ ~f.writable
    THEN [stored |-> f, exc |-> "PermissionError", raised |-> TRUE]
    ELSE [stored |-> WithMode(item, f.readable, f.writable),
          exc |-> "none", raised |-> FALSE]

CfgNotCalled == CfgOutcome("new", "none", FALSE, EmptyDict, DefaultsNone)

ConfigIdle == /\ default_values = DefaultsNone
              /\ stored = StoredFile("missing", EmptyDict, <<>>)
              /\ cfg = CfgNotCalled

ConfigInit ==
    /\ default_values = DefaultsNone
    /\ stored \in {WithMode(f, r, w) :
                      f \in StoredFiles, r \in BOOLEAN, w \in BOOLEAN}
    /\ stored.kind = "missing" => stored.readable /\ stored.writable
    /\ cfg = CfgNotCalled

LoadConfigurationObject(defaults) ==
    /\ UNCHANGED <<dictVars, apiVars, dbusVars>>
    /\ /\ default_values' = defaults
       /\ cfg' = load_configuration_object(defaults, stored)
       /\ UNCHANGED stored

SaveConfigurationObject(item) ==
    /\ UNCHANGED <<dictVars, apiVars, dbusVars>>
    /\ LET r == save_configuration_object(stored, item)
       IN /\ stored' = r.stored
          /\ cfg' = CfgOutcome("save", r.exc, r.raised, EmptyDict, default_values)
          /\ UNCHANGED default_values

(***************************************************************************)
(* PluginAPI: construction, accessors, task editor widgets                 *)
(*                                                                         *)
(* The values the API handles: None, booleans, integers (widget ids),      *)
(* strings (task ids), lists of task ids, and Gtk widgets (an object is    *)
(* named by s and equals only itself).                                     *)
(***************************************************************************)
ApiValue(t, n, s, l) == [t |-> t, n |-> n, s |-> s, l |-> l]
ApiNone      == ApiValue("NoneType", 0, "", <<>>)
ApiBool(b)   == ApiValue("bool", IF b THEN 1 ELSE 0, "", <<>>)
ApiInt(n)    == ApiValue("int", n, "", <<>>)
ApiStr(s)    == ApiValue("str", 0, s, <<>>)
ApiList(l)   == ApiValue("list", 0, "", l)
Widget(w)    == ApiValue("Gtk.Widget", 0, w, <<>>)

\* bool(x)
ApiTruthy(x) ==
    CASE x.t = "NoneType" -> FALSE
      [] x.t \in {"bool", "int"} -> x.n # 0
      [] x.t = "str" -> x.s # ""
      [] x.t = "list" -> Len(x.l) > 0
      [] OTHER -> TRUE

MaxWidgets == 3
Widgets == {Widget("w1"), Widget("w2")}
\* what a caller may pass as widg_id: None, an integer, or the widget itself
WidgIds == {ApiNone} \cup {ApiInt(n) : n \in -1..(MaxWidgets + 1)} \cup Widgets

\* the constructor's taskeditor argument: None, or an editor whose get_task()
\* returns the given value
NoEditor == [isNone |-> TRUE, get_task |-> ApiNone]
Editor(tid) == [isNone |-> FALSE, get_task |-> tid]
Editors == {Editor(tid) : tid \in {ApiNone, ApiStr(""), ApiStr("t1")}}

\* a builder object that is a Gtk container, or None when the builder has none
NoContainer == [exists |-> FALSE, children |-> <<>>]
Container(children) == [exists |-> TRUE, children |-> children]

\* __init__: self.__task_id (an editor object is truthy)
InitTaskId(te) == IF ~te.isNone THEN te.get_task ELSE ApiNone

\* is_editor(): bool(self.__task_id)
is_editor(tid, te) == ApiTruthy(tid)

is_browser(tid, te) == ~is_editor(tid, te)

get_selected(tid, te, sel) ==
    IF is_editor(tid, te) THEN tid ELSE ApiList(sel)

\* vbox.pack_start(widget, ...): a widget that already has a parent is refused
PackStart(children, w) ==
    IF w \in Range(children) THEN children ELSE Append(children, w)

\* vbox.reorder_child(widget, -2): a negative position is the end of the box
ReorderChild(children, w) ==
    LET rest == SelectSeq(children, LAMBDA c : c # w)
    IN IF w \in Range(children) THEN Append(rest, w) ELSE children

\* wi.remove(widget): a widget that is no child of wi is left alone
ContainerRemove(children, w) == SelectSeq(children, LAMBDA c : c # w)

\* widg_id in self.taskwidget_widg
InList(x, list) == \E i \in DOMAIN list : list[i] = x

\* self.taskwidget_widg.pop(widg_id): the exception, the element, the rest
ListPop(list, x) ==
    LET n == Len(list)
        i == IF x.n < 0 THEN n + x.n + 1 ELSE x.n + 1
    IN IF x.t \notin {"int", "bool"}
       THEN [exc |-> "TypeError", item |-> ApiNone, rest |-> list]
       ELSE IF i < 1 \/ i > n
       THEN [exc |-> "IndexError", item |-> ApiNone, rest |-> list]
       ELSE [exc |-> "none", item |-> list[i],
             rest |-> [j \in 1..(n - 1) |-> IF j < i THEN list[j] ELSE list[j + 1]]]

ApiCall(op, arg, ret, exc, raised, logged) ==
    [op |-> op, arg |-> arg, ret |-> ret, exc |-> exc, raised |-> raised,
     logged |-> logged]
ApiNoCall == ApiCall("new", ApiNone, ApiNone, "none", FALSE, FALSE)

ApiIdle ==
    /\ taskeditor = NoEditor /\ task_id = ApiNone /\ taskwidget_id = 0
    /\ taskwidget_widg = <<>> /\ pluginbox = NoContainer /\ vbox4 = <<>>
    /\ selected = <<>> /\ issued = <<>> /\ apiCall = ApiNoCall

\* PluginAPI.__init__, with the builder and the browser it finds
ApiInit ==
    /\ taskeditor \in {NoEditor} \cup Editors
    /\ task_id = InitTaskId(taskeditor)
    /\ taskwidget_id = 0
    /\ taskwidget_widg = <<>>
    /\ pluginbox \in {NoContainer, Container(<<>>)}
    /\ vbox4 = <<>>
    /\ selected \in {<<>>, <<"t2">>}
    /\ issued = <<>>
    /\ apiCall = ApiNoCall

IsEditorCall ==
    /\ UNCHANGED <<dictVars, configVars, dbusVars>>
    /\ /\ apiCall' = ApiCall("is_editor", ApiNone,
                             ApiBool(is_editor(task_id, taskeditor)), "none", FALSE, FALSE)
       /\ UNCHANGED <<taskeditor, task_id, taskwidget_id, taskwidget_widg,
                      pluginbox, vbox4, selected, issued>>

IsBrowserCall ==
    /\ UNCHANGED <<dictVars, configVars, dbusVars>>
    /\ /\ apiCall' = ApiCall("is_browser", ApiNone,
                             ApiBool(is_browser(task_id, taskeditor)), "none", FALSE, FALSE)
       /\ UNCHANGED <<taskeditor, task_id, taskwidget_id, taskwidget_widg,
                      pluginbox, vbox4, selected, issued>>

GetSelectedCall ==
    /\ UNCHANGED <<dictVars, configVars, dbusVars>>
    /\ /\ apiCall' = ApiCall("get_selected", ApiNone,
                             get_selected(task_id, taskeditor, selected),
                             "none", FALSE, FALSE)
       /\ UNCHANGED <<taskeditor, task_id, taskwidget_id, taskwidget_widg,
                      pluginbox, vbox4, selected, issued>>

AddWidgetToTaskeditor(widget) ==
    /\ UNCHANGED <<dictVars, configVars, dbusVars>>
    /\ /\ taskwidget_id < MaxWidgets
       /\ IF pluginbox.exists
          THEN /\ pluginbox' = Container(ReorderChild(
                                  PackStart(pluginbox.children, widget), widget))
               /\ taskwidget_id' = taskwidget_id + 1
               /\ taskwidget_widg' = Append(taskwidget_widg, widget)
               /\ issued' = Append(issued, widget)
               /\ apiCall' = ApiCall("add_widget_to_taskeditor", widget,
                                     ApiInt(taskwidget_id + 1), "none", FALSE, FALSE)
          ELSE /\ apiCall' = ApiCall("add_widget_to_taskeditor", widget,
                                     ApiNone, "none", FALSE, FALSE)
               /\ UNCHANGED <<pluginbox, taskwidget_id, taskwidget_widg, issued>>
       /\ UNCHANGED <<taskeditor, task_id, vbox4, selected>>

\* a handler that expects only a bad index
CaughtIndexErrorOnly(exc) == exc = "IndexError"

\* "except Exception:" around the container lookup and the removal
SwallowedOnRemove(exc) == exc \in ExceptionClasses

\* the body of remove_widget_from_taskeditor: lookup is what
\* builder.get_object('vbox4') does ("ok", "none": returns None, "raise")
remove_widget_from_taskeditor(tid, te, widgs, box, widg_id, lookup) ==
    LET same == [widgs |-> widgs, box |-> box, exc |-> "none"]
        body ==
          IF lookup = "raise" THEN [same EXCEPT !.exc = "RuntimeError"]
          ELSE IF lookup = "ok" /\ InList(widg_id, widgs)
          THEN LET p == ListPop(widgs, widg_id)
               IN IF p.exc # "none" THEN [same EXCEPT !.exc = p.exc]
                  ELSE [widgs |-> p.rest, box |-> ContainerRemove(box, p.item),
                        exc |-> "none"]
          ELSE same
    IN IF is_editor(tid, te) /\ ApiTruthy(widg_id)
       THEN [widgs |-> body.widgs, box |-> body.box, exc |-> body.exc,
             raised |-> body.exc # "none" /\ ~SwallowedOnRemove(body.exc),
             logged |-> body.exc # "none" /\ SwallowedOnRemove(body.exc)]
       ELSE [widgs |-> widgs, box |-> box, exc |-> "none",
             raised |-> FALSE, logged |-> FALSE]

RemoveWidgetFromTaskeditor(widg_id, lookup) ==
    /\ UNCHANGED <<dictVars, configVars, dbusVars>>
    /\ LET r == remove_widget_from_taskeditor(task_id, taskeditor, taskwidget_widg,
                                              vbox4, widg_id, lookup)
       IN /\ taskwidget_widg' = r.widgs
          /\ vbox4' = r.box
          /\ apiCall' = ApiCall("remove_widget_from_taskeditor", widg_id, ApiNone,
                                r.exc, r.raised, r.logged)
          /\ UNCHANGED <<taskeditor, task_id, taskwidget_id, pluginbox, selected, issued>>

(***************************************************************************)
(* DBusTaskWrapper over the requester's task store.                        *)
(*                                                                         *)
(* The requester and the task objects live outside these two files; they   *)
(* are modelled as a plain store: a task is a record of its fields, a      *)
(* setter stores its argument, add_tag / add_child append what is not yet  *)
(* there, get_tasks_list(status) lists the tasks whose status equals one   *)
(* of the given values, req.new_task makes a task with a fresh id.         *)
(***************************************************************************)
MaxNewTasks == 1
InitialTids == <<"t1", "t2">>
NewTids == <<"n1", "n2", "n3">>
TidOrder == InitialTids \o NewTids
Tids == Range(TidOrder)
UnknownTid == "t9"

TaskRec(status, title, due, start, done, tags, text, subtask) ==
    [status |-> status, title |-> title, duedate |-> due, startdate |-> start,
     donedate |-> done, tags |-> tags, text |-> text, subtask |-> subtask]

\* Task setters and adders
set_status(t, status, donedate) == [t EXCEPT !.status = status, !.donedate = donedate]
set_title(t, title)    == [t EXCEPT !.title = title]
set_due_date(t, d)     == [t EXCEPT !.duedate = d]
set_start_date(t, d)   == [t EXCEPT !.startdate = d]
set_text(t, text)      == [t EXCEPT !.text = text]
add_tag(t, tag) ==
    IF tag \in Range(t.tags) THEN t ELSE [t EXCEPT !.tags = Append(@, tag)]
add_child(t, sub) ==
    IF sub \in Range(t.subtask) THEN t ELSE [t EXCEPT !.subtask = Append(@, sub)]

\* the getters of a stored task, as task_to_dict calls them
TaskGetters(tid, t) ==
    [k \in DictKeys |->
        CASE k = "id" -> PyStr(tid)
          [] k = "status" -> PyStr(t.status)
          [] k = "title" -> PyStr(t.title)
          [] k = "duedate" -> PyDate(t.duedate)
          [] k = "startdate" -> PyDate(t.startdate)
          [] k = "donedate" -> PyDate(t.donedate)
          [] k = "tags" -> PyList(t.tags)
          [] k = "text" -> PyStr(t.text)
          [] k = "subtask" -> PyList(t.subtask)]

\* ---- get_task_ids: the status string is a sequence of pieces: a status
\* ---- name, a comma, a blank, or a non-ASCII letter
MaxStatusLen == 2
Comma == ","
Blank == " "
EAcute == "e-acute"
StatusPieces == {"Active", Comma, Blank, EAcute}
StatusStrings == UNION {[1..n -> StatusPieces] : n \in 0..MaxStatusLen}

\* status_string.split(','): the pieces between the commas
RECURSIVE Split(_, _, _)
Split(str, i, cur) ==
    IF i > Len(str) THEN <<cur>>
    ELSE IF str[i] = Comma THEN <<cur>> \o Split(str, i + 1, <<>>)
    ELSE Split(str, i + 1, Append(cur, str[i]))

\* s.strip(): blanks dropped at both ends
RECURSIVE LStrip(_)
LStrip(str) ==
    IF str # <<>> /\ Head(str) = Blank THEN LStrip(Tail(str)) ELSE str
RECURSIVE RStrip(_)
RStrip(str) ==
    IF str # <<>> /\ str[Len(str)] = Blank
    THEN RStrip(SubSeq(str, 1, Len(str) - 1)) ELSE str
Strip(str) == RStrip(LStrip(str))

\* a bytes object: never equal to a str, whatever its letters
PyBytes(pieces) == [t |-> "bytes", v |-> pieces]

\* unicodedata.normalize('NFKD', s).encode('ascii', 'ignore'): an accented
\* letter is decomposed and only its base letter survives; the result of
\* encode is a bytes object
ToAscii(str) ==
    PyBytes([i \in DOMAIN str |-> IF str[i] = EAcute THEN "e" ELSE str[i]])

ParseStatus(status_string) ==
    LET parts == Split(status_string, 1, <<>>)
    IN [i \in DOMAIN parts |-> ToAscii(Strip(parts[i]))]

\* req.get_tasks_list(status=...): the ids of the tasks whose status (a str)
\* equals one of the given values
get_tasks_list(st, status) ==
    SelectSeq(TidOrder, LAMBDA tid :
        tid \in DOMAIN st /\ \E i \in DOMAIN status : status[i] = PyStr(st[tid].status))

DBusResult(exc, ids, dict, dicts) ==
    [exc |-> exc, ids |-> ids, dict |-> dict, dicts |-> dicts]

\* get_task_ids(self, status_string), called with the arguments args
get_task_ids(st, args) ==
    IF Len(args) # 1 THEN DBusResult("TypeError", <<>>, NoDict, <<>>)
    ELSE DBusResult("none", get_tasks_list(st, ParseStatus(args[1])), NoDict, <<>>)

\* get_task(self, tid): req.get_task gives None for an unknown id
get_task(st, tid) ==
    IF tid \notin DOMAIN st THEN DBusResult("AttributeError", <<>>, NoDict, <<>>)
    ELSE DBusResult("none", <<>>, task_to_dict(TaskGetters(tid, st[tid])), <<>>)

\* get_tasks(self): [self.get_task(id) for id in self.get_task_ids()]
get_tasks(st) ==
    LET ids == get_task_ids(st, <<>>)
    IN IF ids.exc # "none" THEN DBusResult(ids.exc, <<>>, NoDict, <<>>)
       ELSE DBusResult("none", <<>>, NoDict,
                       [i \in DOMAIN ids.ids |-> get_task(st, ids.ids[i]).dict])

\* for tag in tags: task.add_tag(tag)   /   for sub in subs: task.add_child(sub)
RECURSIVE AddTags(_, _)
AddTags(t, tags) ==
    IF tags = <<>> THEN t ELSE AddTags(add_tag(t, Head(tags)), Tail(tags))
RECURSIVE AddChildren(_, _)
AddChildren(t, subs) ==
    IF subs = <<>> THEN t ELSE AddChildren(add_child(t, Head(subs)), Tail(subs))

\* the task after modify_task's calls on it
ModifiedTask(t, data) ==
    LET t1 == set_status(t, data.status, data.donedate)
        t2 == set_title(t1, data.title)
        t3 == set_due_date(t2, data.duedate)
        t4 == set_start_date(t3, data.startdate)
        t5 == set_text(t4, data.text)
        t6 == AddTags(t5, data.tags)
    IN AddChildren(t6, data.subtask)

\* dates.strtodate: a date for a date string, no date (printed "") otherwise
ValidDates == {"2013-01-01"}
strtodate(str) == IF str \in ValidDates THEN str ELSE ""

\* req.new_task(tags=...): a fresh task
RequesterNewTask(tags) == TaskRec("Active", "", "", "", "", tags, "", <<>>)

\* the task new_task builds from its arguments
NewTask(data) ==
    LET nt == RequesterNewTask(data.tags)
        t1 == AddChildren(nt, data.subtask)
        t2 == set_status(t1, data.status, strtodate(data.donedate))
        t3 == set_title(t2, data.title)
        t4 == set_due_date(t3, strtodate(data.duedate))
        t5 == set_start_date(t4, strtodate(data.startdate))
    IN set_text(t5, data.text)

\* the task open_new_task builds: the text is set only for a description
OpenedNewTask(title, description) ==
    LET nt == set_title(RequesterNewTask(<<>>), title)
    IN IF description # "" THEN set_text(nt, description) ELSE nt

NoData == TaskRec("", "", "", "", "", <<>>, "", <<>>)
\* the task_data given to modify_task
TaskData ==
    {TaskRec("Done", "new title", "2013-01-01", "2013-01-01", "2013-01-01",
             tags, "new text", subtask) :
        tags \in {<<>>, <<"b">>},
        subtask \in {<<>>, <<"c">>}}
\* the arguments given to new_task
NewTaskData ==
    {TaskRec("Active", "fresh", due, "", "", tags, "txt", <<>>) :
        due \in {"", "2013-01-01"},
        tags \in {<<>>, <<"a">>}}

DBusCall(op, tid, status_string, data, res) ==
    [op |-> op, tid |-> tid, status_string |-> status_string, data |-> data,
     res |-> res]
NoResult == DBusResult("none", <<>>, NoDict, <<>>)

DBusIdle == /\ store = [tid \in {} |-> NoData]
            /\ created = 0
            /\ dbusCall = DBusCall("new", "", <<>>, NoData, NoResult)

DBusInit ==
    /\ store \in [Range(InitialTids) ->
                    {TaskRec("Active", "title", "", "", "", tags, "", <<>>) :
                        tags \in {<<>>, <<"a">>}}]
    /\ created = 0
    /\ dbusCall = DBusCall("new", "", <<>>, NoData, NoResult)

GetTaskIds(status_string) ==
    /\ UNCHANGED <<dictVars, configVars, apiVars>>
    /\ /\ dbusCall' = DBusCall("get_task_ids", "", status_string, NoData,
                               get_task_ids(store, <<status_string>>))
       /\ UNCHANGED <<store, created>>

GetTask(tid) ==
    /\ UNCHANGED <<dictVars, configVars, apiVars>>
    /\ /\ dbusCall' = DBusCall("get_task", tid, <<>>, NoData, get_task(store, tid))
       /\ UNCHANGED <<store, created>>

GetTasks ==
    /\ UNCHANGED <<dictVars, configVars, apiVars>>
    /\ /\ dbusCall' = DBusCall("get_tasks", "", <<>>, NoData, get_tasks(store))
       /\ UNCHANGED <<store, created>>

DeleteTask(tid) ==
    /\ UNCHANGED <<dictVars, configVars, apiVars>>
    /\ /\ store' = [t \in DOMAIN store \ {tid} |-> store[t]]
       /\ dbusCall' = DBusCall("delete_task", tid, <<>>, NoData, NoResult)
       /\ UNCHANGED created

\* new_task: the call records the new task's id and the supplied arguments
NewTaskCall(data) ==
    /\ UNCHANGED <<dictVars, configVars, apiVars>>
    /\ created < MaxNewTasks
    /\ LET tid == NewTids[created + 1]
           nt == NewTask(data)
       IN /\ store' = [t \in DOMAIN store \cup {tid} |->
                          IF t = tid THEN nt ELSE store[t]]
          /\ created' = created + 1
          /\ dbusCall' = DBusCall("new_task", tid, <<>>, data,
                                  DBusResult("none", <<>>,
                                             task_to_dict(TaskGetters(tid, nt)), <<>>))

\* open_new_task: the call records the id handed to view_manager.open_task
OpenNewTask(title, description) ==
    /\ UNCHANGED <<dictVars, configVars, apiVars>>
    /\ created < MaxNewTasks
    /\ LET tid == NewTids[created + 1]
           nt == OpenedNewTask(title, description)
       IN /\ store' = [t \in DOMAIN store \cup {tid} |->
                          IF t = tid THEN nt ELSE store[t]]
          /\ created' = created + 1
          /\ dbusCall' = DBusCall("open_new_task", tid, <<>>,
                                  [NoData EXCEPT !.title = title, !.text = description],
                                  NoResult)

ModifyTask(tid, data) ==
    /\ UNCHANGED <<dictVars, configVars, apiVars>>
    /\ UNCHANGED created
    /\ IF tid \notin DOMAIN store
       THEN /\ dbusCall' = DBusCall("modify_task", tid, <<>>, data,
                                    DBusResult("AttributeError", <<>>, NoDict, <<>>))
            /\ UNCHANGED store
       ELSE LET t == ModifiedTask(store[tid], data)
            IN /\ store' = [store EXCEPT ![tid] = t]
               /\ dbusCall' = DBusCall("modify_task", tid, <<>>, data,
                                       DBusResult("none", <<>>,
                                                  task_to_dict(TaskGetters(tid, t)), <<>>))

(***************************************************************************)
(* The four specifications                                                 *)
(***************************************************************************)
InitDict == DictInit /\ ConfigIdle /\ ApiIdle /\ DBusIdle
NextDict == TaskToDict
SpecDict == InitDict /\ [][NextDict]_vars

InitConfig == DictIdle /\ ConfigInit /\ ApiIdle /\ DBusIdle
NextConfig ==
    \/ \E defaults \in {DefaultsNone} \cup {DefaultsDict(d) : d \in Dicts} :
          LoadConfigurationObject(defaults)
    \/ \E item \in SavedItems : SaveConfigurationObject(item)
SpecConfig == InitConfig /\ [][NextConfig]_vars

InitApi == DictIdle /\ ConfigIdle /\ ApiInit /\ DBusIdle
NextApi ==
    \/ IsEditorCall
    \/ IsBrowserCall
    \/ GetSelectedCall
    \/ \E widget \in Widgets : AddWidgetToTaskeditor(widget)
    \/ \E widg_id \in WidgIds, lookup \in {"ok", "none", "raise"} :
          RemoveWidgetFromTaskeditor(widg_id, lookup)
SpecApi == InitApi /\ [][NextApi]_vars

InitDBus == DictIdle /\ ConfigIdle /\ ApiIdle /\ DBusInit
NextDBus ==
    \/ \E s \in StatusStrings : GetTaskIds(s)
    \/ \E tid \in DOMAIN store \cup {UnknownTid} : GetTask(tid)
    \/ GetTasks
    \/ \E tid \in DOMAIN store \cup {UnknownTid} : DeleteTask(tid)
    \/ \E data \in NewTaskData : NewTaskCall(data)
    \/ \E title \in {"opened"}, description \in {"", "descr"} :
          OpenNewTask(title, description)
    \/ \E tid \in DOMAIN store \cup {UnknownTid}, data \in TaskData :
          ModifyTask(tid, data)
SpecDBus == InitDBus /\ [][NextDBus]_vars

(***************************************************************************)
(* Properties                                                              *)
(***************************************************************************)
RemoveOp == "remove_widget_from_taskeditor"

\* C1 as stated: the dictionary task_to_dict returns has exactly the nine
\* keys, holds no None, and EVERY field whose getter returned an empty list
\* is a typed empty string array.
C1_AsStated ==
    dpc = "done" =>
        /\ DOMAIN toret = DictKeys
        /\ \A k \in DictKeys : toret[k] # PyNone
        /\ \A k \in DictKeys :
              task[k] = PyList(<<>>) => toret[k] = DBusArray(<<>>)

\* C1 amended: the dictionary has exactly the nine keys and holds no None;
\* every field other than duedate, startdate and donedate whose getter
\* returned an empty list is a typed empty string array, and a date field
\* whose getter returned an empty list is the string "[]".
C1_Sanitized ==
    dpc = "done" =>
        /\ DOMAIN toret = DictKeys
        /\ \A k \in DictKeys : toret[k] # PyNone
        /\ \A k \in DictKeys \ DateKeys :
              task[k] = PyList(<<>>) => toret[k] = DBusArray(<<>>)
        /\ \A k \in DateKeys :
              task[k] = PyList(<<>>) => toret[k] = PyStr("[]")

\* a task with a None title, no tags and an empty list as due date, converted
C1_Witness ==
    /\ dpc = "done"
    /\ task["title"] = PyNone /\ toret["title"] = PyStr("")
    /\ task["tags"] = PyList(<<>>) /\ toret["tags"] = DBusArray(<<>>)
    /\ task["duedate"] = PyList(<<>>)
    /\ task["startdate"] = PyNone

\* C2: load_configuration_object never raises because of the stored file;
\* whenever opening, unpickling or merging fails it returns a dict equal to
\* default_values (the empty dict for None); default_values is not modified.
C2_FallsBackToDefaults ==
    cfg.op = "load" =>
        /\ ~cfg.raised
        /\ cfg.exc # "none" =>
              cfg.config = (IF default_values.isNone THEN EmptyDict
                            ELSE default_values.d)
        /\ cfg.defaults_after = default_values

\* C3: on an API built for an editor, remove_widget_from_taskeditor with an
\* id that add_widget_to_taskeditor returned takes the widget added under
\* that id out of taskwidget_widg and out of the box it was packed into, and
\* every other added widget stays.
C3_RemovesTheWidget ==
    [][(/\ apiCall'.op = RemoveOp
        /\ ~taskeditor.isNone
        /\ apiCall'.arg.t = "int"
        /\ apiCall'.arg.n \in 1..Len(issued))
       => LET w == issued[apiCall'.arg.n]
          IN /\ w \notin Range(taskwidget_widg')
             /\ w \notin Range(pluginbox'.children)
             /\ \A x \in Range(taskwidget_widg) \ {w} : x \in Range(taskwidget_widg')
             /\ \A x \in Range(pluginbox.children) \ {w} :
                   x \in Range(pluginbox'.children)]_vars

\* C4: is_editor is true exactly when the API was built with a task editor,
\* whatever the editor's get_task() returns; is_browser is its negation;
\* get_selected is the editor's task id on an editor API and the browser's
\* selected tasks on a browser API.
C4_EditorIffConstructedWithOne ==
    /\ apiCall.op = "is_editor" => apiCall.ret = ApiBool(~taskeditor.isNone)
    /\ apiCall.op = "is_browser" => apiCall.ret = ApiBool(taskeditor.isNone)
    /\ apiCall.op = "get_selected" =>
          apiCall.ret = (IF ~taskeditor.isNone THEN taskeditor.get_task
                         ELSE ApiList(selected))

\* C5: get_tasks, called with no arguments on any store, completes without
\* error and returns one get_task dict for each id that get_task_ids yields.
C5_GetTasksCompletes ==
    dbusCall.op = "get_tasks" =>
        /\ dbusCall.res.exc = "none"
        /\ \E s \in StatusStrings :
              LET ids == get_task_ids(store, <<s>>).ids
              IN dbusCall.res.dicts =
                    [i \in DOMAIN ids |-> get_task(store, ids[i]).dict]

\* C6: modify_task(tid, task_data) on a stored task returns a dict (the one a
\* following get_task(tid) returns) whose status, title, text, tags and
\* subtask equal the supplied values, and changes no other task.
C6_AppliesSuppliedData ==
    [][(/\ dbusCall'.op = "modify_task"
        /\ dbusCall'.tid \in DOMAIN store)
       => LET d == dbusCall'.res.dict
              data == dbusCall'.data
          IN /\ dbusCall'.res.exc = "none"
             /\ d = get_task(store', dbusCall'.tid).dict
             /\ d["status"] = PyStr(data.status)
             /\ d["title"] = PyStr(data.title)
             /\ d["text"] = PyStr(data.text)
             /\ PyEq(d["tags"], PyList(data.tags))
             /\ PyEq(d["subtask"], PyList(data.subtask))
             /\ DOMAIN store' = DOMAIN store
             /\ \A o \in DOMAIN store \ {dbusCall'.tid} : store'[o] = store[o]]_vars

\* C7: remove_widget_from_taskeditor never lets an exception reach its
\* caller, whatever widg_id is and however the container lookup fails; on an
\* API built without an editor, or with a falsy widg_id, it leaves
\* taskwidget_widg, taskwidget_id and the widget tree as they were.
C7_RemoveNeverRaises ==
    [][apiCall'.op = RemoveOp
       => /\ ~apiCall'.raised
          /\ (taskeditor.isNone \/ ~ApiTruthy(apiCall'.arg))
                => /\ apiCall'.exc = "none"
                   /\ UNCHANGED <<taskwidget_widg, taskwidget_id, pluginbox, vbox4>>]_vars

\* the widget itself passed as widg_id on an editor API with widgets added:
\* list.pop refuses it with a TypeError, which is logged and not raised
C7_Witness ==
    /\ apiCall.op = RemoveOp
    /\ ~taskeditor.isNone
    /\ Len(taskwidget_widg) > 0
    /\ apiCall.arg \in Range(taskwidget_widg)
    /\ apiCall.exc = "TypeError"
    /\ apiCall.logged
    /\ ~apiCall.raised

====
